---- MODULE Spec2Model ----
(***************************************************************************)
(* Model of the transcode-hash-dedupe-upload pipeline of the image         *)
(* optimizer: CoreImageService (src/utils/google_cdn.ts), the variant      *)
(* pipeline createOptimizedImages (src/utils/optimizer.ts) and the batch   *)
(* driver with its checkpoint (demos/optimaze_remote_url.ts).              *)
(*                                                                         *)
(* Strings of the program are sequences of tokens (a path is the sequence  *)
(* of its segments and separators), file contents are small naturals with  *)
(* 0 the empty byte string, and SHA-256 is an injective map on contents.   *)
(***************************************************************************)
EXTENDS Integers, Sequences, FiniteSets, TLC

VARIABLES
    store,      \* the bucket: destination -> stored object
    saveCount,  \* number of gcsFile.save() calls the bucket accepted
    now,        \* the clock read by new Date()
    call,       \* the uploadImage calls: arguments, position, locals, result
    fs,         \* the local disk: path -> bytes (0 for an empty file)
    inv,        \* the createOptimizedImages invocations
    mainPc,     \* the batch script: "stopped", "batch" or "completed"
    forced,     \* whether the running script was started with --force
    state,      \* the script's ProcessingState in memory
    stateFile,  \* processing_state.json: <<>> when absent, else <<document>>
    loopIndex,  \* i of the main batch loop
    inFlight,   \* indices of the properties whose processProperty is pending
    crashes,    \* how often the script has been interrupted
    properties, \* the script's properties array in memory, by index
    optimizedFile, \* optimized_properties.json: <<>> when absent
    failedFile, \* failed_properties.json: <<>> when absent
    retry,      \* one retryWithBackoff call of the batch script
    aw,         \* atomicWrite of the state file: its position and the temp file
    req,        \* one POST /api/v1/upload/optimize request and its optimizeImage call
    rz,         \* one resize: the source, the limits and the size of the output
    prop        \* one processProperty call of the batch script and its handler

uploadVars == <<store, saveCount, now, call>>
pipeVars == <<fs, inv>>
batchVars == <<mainPc, forced, state, stateFile, loopIndex, inFlight, crashes,
               properties, optimizedFile, failedFile>>

auxVars == <<retry, aw, req, rz, prop>>

vars == <<store, saveCount, now, call, fs, inv,
          mainPc, forced, state, stateFile, loopIndex, inFlight, crashes,
          properties, optimizedFile, failedFile,
          retry, aw, req, rz, prop>>

----------------------------------------------------------------------------
(* Bounds *)

NumCalls == 2

Calls == 1..NumCalls

----------------------------------------------------------------------------
(* Paths: node:path over token sequences *)

SLASH == "/"
ExtTokens == {".webp", ".jpg"}

LastSlash(p) ==
    LET idx == {i \in 1..Len(p) : p[i] = SLASH}
    IN  IF idx = {} THEN 0 ELSE CHOOSE i \in idx : \A j \in idx : j <= i

Basename(p) == SubSeq(p, LastSlash(p) + 1, Len(p))

\* path.extname: the part of the last segment from its last "." on, empty
\* when the segment has no "." or only a leading one.
Extname(p) ==
    LET b == Basename(p)
    IN  IF Len(b) >= 2 /\ b[Len(b)] \in ExtTokens THEN <<b[Len(b)]>> ELSE <<>>

\* path.basename(p, ext): the last segment without the suffix ext.
BasenameNoExt(p) ==
    LET b == Basename(p)
    IN  SubSeq(b, 1, Len(b) - Len(Extname(p)))

\* path.dirname: everything before the last separator; "." when there is
\* none, "/" when the only separator leads the path.
Dirname(p) ==
    LET s == LastSlash(p)
    IN  IF s = 0 THEN <<".">>
        ELSE IF s = 1 THEN <<SLASH>>
        ELSE SubSeq(p, 1, s - 1)

----------------------------------------------------------------------------
(* CoreImageService *)

bucketName == "tinypic"
cdnBase == "https://cdn.example.com"

DefaultCacheControl ==
    "public, max-age=31536000, immutable, must-revalidate, stale-while-revalidate=86400"
DefaultContentType == "image/webp"
Undefined == "undefined"

EmptyMeta == [k \in {} |-> ""]

generateHash(content) == "sha256:" \o ToString(content)

generateFileName(originalFileName, hash) ==
    <<hash>> \o Extname(originalFileName)

getImageUrls(imagePath) ==
    LET hash == BasenameNoExt(imagePath)
        extension == Extname(imagePath)
        folder == Dirname(imagePath)
        objectPath == folder \o <<SLASH>> \o hash \o extension
    IN  [cdnUrl |-> <<cdnBase, SLASH>> \o objectPath,
         directUrl |-> <<"https://storage.googleapis.com/", bucketName, SLASH>> \o objectPath,
         gsUrl |-> <<"gs://", bucketName, SLASH>> \o objectPath]

\* uploadImage, lines 82-86: the key of a file's content.
Destination(filePath, folder, content) ==
    folder \o <<SLASH>> \o generateFileName(Basename(filePath), generateHash(content))

\* uploadImage, lines 96-100: { fullHash, uploadedAt, ...metadata }.
ImageMetadata(hash, at, metadata) ==
    LET base == [k \in {"fullHash", "uploadedAt"} |->
                    IF k = "fullHash" THEN hash ELSE ToString(at)]
    IN  [k \in DOMAIN base \cup DOMAIN metadata |->
            IF k \in DOMAIN metadata THEN metadata[k] ELSE base[k]]

\* uploadImage, lines 75-79: the destructuring defaults.
OptionOr(value, default) == IF value = Undefined THEN default ELSE value

\* uploadImage, lines 102-113: the object handed to gcsFile.save().
StoredObject(content, options, hash, at) ==
    [bytes |-> content,
     contentType |-> OptionOr(options.contentType, DefaultContentType),
     cacheControl |-> OptionOr(options.cacheControl, DefaultCacheControl),
     metadata |-> ImageMetadata(hash, at, options.metadata)]

Put(s, key, obj) ==
    [k \in DOMAIN s \cup {key} |-> IF k = key THEN obj ELSE s[k]]

----------------------------------------------------------------------------
(* Inputs of uploadImage *)

\* A file on disk: its path and its bytes.
Files ==
    {[path |-> <<"tmp", SLASH, "photo", ".webp">>, content |-> 1],
     [path |-> <<"tmp", SLASH, "photo", ".webp">>, content |-> 2],
     [path |-> <<"tmp", SLASH, "photo", ".jpg">>, content |-> 1]}
\* The folders callers pass: one of uploadToCDN and the root of the bucket.
Folders == {<<"rubenabix", SLASH, "full">>, <<>>}
OptionChoices ==
    {[cacheControl |-> Undefined, contentType |-> Undefined, metadata |-> EmptyMeta],
     [cacheControl |-> "public, max-age=31536000, immutable, must-revalidate",
      contentType |-> "image/png",
      metadata |-> [k \in {"propertyId"} |-> "PROP456"]],
     [cacheControl |-> Undefined, contentType |-> Undefined,
      metadata |-> [k \in {"fullHash"} |-> "legacy-id"]]}

\* The calls that are made: every file with the folder of uploadToCDN and
\* the options of the callers, one call into the root of the bucket, and one
\* whose metadata names a key of the record itself.
UploadInputs ==
    {u \in [file : Files, folder : Folders, options : OptionChoices] :
        /\ (u.folder = <<>> \/ "fullHash" \in DOMAIN u.options.metadata)
              => u.file = [path |-> <<"tmp", SLASH, "photo", ".webp">>, content |-> 1]
        /\ u.folder = <<>> => u.options.metadata = EmptyMeta
        /\ "fullHash" \in DOMAIN u.options.metadata => u.folder # <<>>}

NoUrls == [cdnUrl |-> <<>>, directUrl |-> <<>>, gsUrl |-> <<>>]

IdleCall ==
    [pc |-> "idle", filePath |-> <<>>, content |-> 0, folder |-> <<>>,
     options |-> [cacheControl |-> Undefined, contentType |-> Undefined,
                  metadata |-> EmptyMeta],
     fileContent |-> 0, hash |-> "", destination |-> <<>>,
     sawExists |-> FALSE, saves |-> 0, at |-> 0, urls |-> NoUrls]

----------------------------------------------------------------------------
(* The variant pipeline: inputs and helpers *)

NumInvocations == 2

Invocations == 1..NumInvocations

TMP_PRE_PROCESSED_IMAGES_DIR == "./tmp/pre-processed-images"
TMP_INPUT_IMAGES_DIR == "./tmp/input-images"

ImageTypes == {"thumbnail", "full", "preview"}

TypeIndex(type) ==
    CASE type = "thumbnail" -> 1 [] type = "full" -> 2 [] type = "preview" -> 3

LocalSourcePath == <<"photos", SLASH, "house", ".jpg">>
RemoteUrl == <<"https:", SLASH, SLASH, "img.example", SLASH, "a", ".jpg">>

\* What createOptimizedImages is asked for: a URL (which several invocations
\* may be given, as with a gallery that lists an image twice) for one or two
\* variants, or a local file. `content` is what the source holds and
\* `format` the extension of the type of those bytes (the Content-Type of
\* the response): the server answers the .jpg URL with a WebP image.
Requests ==
    <<[url |-> RemoteUrl, content |-> 1, types |-> <<"full">>, format |-> ".webp"],
      [url |-> RemoteUrl, content |-> 1, types |-> <<"thumbnail", "full">>,
       format |-> ".webp"],
      [url |-> LocalSourcePath, content |-> 2, types |-> <<"full">>,
       format |-> ".jpg"]>>

\* optimizer.ts line 185: source.startsWith("http").
IsRemote(source) == Len(source) > 0 /\ source[1] \in {"http:", "https:"}

\* The bytes optimizeImageWithPlaywright produces for a decodable image;
\* distinct per source and per variant config.
Transcode(content, type) == content * 10 + TypeIndex(type)

\* The URL under which the optimizer serves its output (format webp).
OptimizedUrl(bytes) ==
    <<"http:", SLASH, SLASH, "localhost:3000", SLASH, "uploads", SLASH,
      "img" \o ToString(bytes), ".webp">>

\* saveToLocalImage, lines 127-132: the temp path of downloaded bytes.
LocalImagePath(url, tempDir, bytes) ==
    <<tempDir, SLASH>> \o generateFileName(<<".">> \o Extname(url), generateHash(bytes))

\* uploadToCDN, lines 299-319: folder and options of a variant's upload.
VariantFolder(type) == <<"rubenabix", SLASH, type>>

VariantOptions(type) ==
    [cacheControl |-> "public, max-age=31536000, immutable, must-revalidate",
     contentType |-> "image/webp",
     metadata |-> [k \in {"propertyId", "imageType"} |->
                      IF k = "propertyId" THEN "PROP123" ELSE type]]

NoUpload == [fileContent |-> 0, hash |-> "", destination |-> <<>>, at |-> 0]

IdleInvocation ==
    [pc |-> "idle", request |-> 0, source |-> <<>>, srcContent |-> 0,
     types |-> <<>>, k |-> 0,
     imagePath |-> <<>>, tempFiles |-> <<>>, out |-> 0, optimized |-> <<>>,
     upTempFiles |-> <<>>, pending |-> FALSE, up |-> NoUpload,
     results |-> [t \in {} |-> <<>>], log |-> <<>>, created |-> {}]

----------------------------------------------------------------------------
(* The batch script (demos/optimaze_remote_url.ts): inputs and helpers *)

NumProperties == 6
MaxCrashes == 1
BATCH_SIZE == 5

\* properties.json: the properties by index; the id of a property is taken
\* to be its index.
PropertyIndices == 0..(NumProperties - 1)

\* The properties whose cover image cannot be processed: processProperty
\* rejects for them (lines 256-266) and resolves for the others.
FailingProperties == {1}

\* lines 134-140, 150-156: the state of a fresh start.
FreshState ==
    [processedProperties |-> <<>>, failedProperties |-> <<>>,
     lastProcessedIndex |-> -1]

\* lines 131-157: loadProcessingState.
loadProcessingState(force) ==
    IF force THEN FreshState
    ELSE IF stateFile # <<>> /\ ~aw.fileTorn THEN stateFile[1]
    ELSE FreshState

Min(a, b) == IF a < b THEN a ELSE b

\* line 375: properties.json as the script reads it; every entry holds the
\* original image URLs.
PropertiesJson == [p \in PropertyIndices |-> "original"]

\* lines 168-172: properties.slice(0, currentIndex + BATCH_SIZE).
SliceUpTo(array, end) ==
    [n \in 1..Min(end, NumProperties) |-> array[n - 1]]

\* lines 329-330: the indices of the batch that starts at startIndex.
BatchOf(startIndex) ==
    {p \in PropertyIndices : startIndex <= p /\ p < Min(startIndex + BATCH_SIZE, NumProperties)}

Range(seq) == {seq[n] : n \in DOMAIN seq}

\* retryWithBackoff (lines 96-98, 192-204): the constants and the state of a
\* call before it is made.
MAX_RETRIES == 3
RETRY_DELAY_MS == 2000
OPERATION_TIMEOUT_MS == 30000

IdleRetry ==
    [pc |-> "idle", retries |-> MAX_RETRIES, outcomes |-> <<>>,
     sleeps |-> <<>>, waited |-> 0, pending |-> 0]

----------------------------------------------------------------------------
(* POST /api/v1/upload/optimize: inputs and helpers *)

\* routes/optimize.ts lines 6-11, 24.
allowedMimeTypes == {"image/jpeg", "image/png", "image/webp", "image/avif"}
MAX_FILE_SIZE == 10485760

\* The "file" field of the form: absent, or a File with a size, a MIME type
\* and the extension of its name.
NoFile == [present |-> FALSE, size |-> 0, type |-> "", ext |-> ""]

FormFiles ==
    {NoFile,
     [present |-> TRUE, size |-> MAX_FILE_SIZE, type |-> "image/jpeg", ext |-> "jpg"],
     [present |-> TRUE, size |-> MAX_FILE_SIZE + 1, type |-> "image/png", ext |-> "png"],
     [present |-> TRUE, size |-> 1000, type |-> "image/gif", ext |-> "gif"],
     [present |-> TRUE, size |-> 1000, type |-> "image/avif", ext |-> "avif"]}

\* The "width" and "height" fields of the form as strings of characters;
\* <<>> is a field that is absent or empty.
WidthStrings ==
    {<<>>, <<"2", "0", "0">>, <<"0">>, <<"-", "5">>, <<"a", "b", "c">>,
     <<"1", "2", "p", "x">>}

HeightStrings == {<<>>, <<"1", "0", "0">>, <<"a", "b", "c">>}

Digits == {"0", "1", "2", "3", "4", "5", "6", "7", "8", "9"}

DigitValue(ch) ==
    CASE ch = "0" -> 0 [] ch = "1" -> 1 [] ch = "2" -> 2 [] ch = "3" -> 3
      [] ch = "4" -> 4 [] ch = "5" -> 5 [] ch = "6" -> 6 [] ch = "7" -> 7
      [] ch = "8" -> 8 [] ch = "9" -> 9

\* The longest prefix of digits of a string.
RECURSIVE LeadingDigits(_)
LeadingDigits(str) ==
    IF str = <<>> \/ Head(str) \notin Digits THEN <<>>
    ELSE <<Head(str)>> \o LeadingDigits(Tail(str))

RECURSIVE DigitsValue(_, _)
DigitsValue(digits, acc) ==
    IF digits = <<>> THEN acc
    ELSE DigitsValue(Tail(digits), acc * 10 + DigitValue(Head(digits)))

NotGiven == [kind |-> "undefined", value |-> 0]
NaN == [kind |-> "NaN", value |-> 0]

\* Number.parseInt: an optional sign and the leading digits; NaN when there
\* is no leading digit.
ParseInt(str) ==
    LET negative == str # <<>> /\ Head(str) = "-"
        unsigned == IF negative THEN Tail(str) ELSE str
        digits == LeadingDigits(unsigned)
    IN  IF digits = <<>> THEN NaN
        ELSE [kind |-> "number",
              value |-> IF negative THEN 0 - DigitsValue(digits, 0)
                        ELSE DigitsValue(digits, 0)]

\* lines 49-50, 54-55: widthStr ? Number.parseInt(widthStr) : undefined.
ParseDimension(str) == IF str # <<>> THEN ParseInt(str) ELSE NotGiven

\* lines 51, 56: the dimension is given and is NaN or not positive.
BadDimension(dimension) ==
    /\ dimension.kind # "undefined"
    /\ (dimension.kind = "NaN" \/ dimension.value <= 0)

\* lines 19-58: the first check that fails, "" when none does.
ValidationError(file, widthStr, heightStr) ==
    IF ~file.present THEN "No file provided"
    ELSE IF file.size > MAX_FILE_SIZE THEN "File too large. Maximum size is 10MB"
    ELSE IF file.type \notin allowedMimeTypes THEN "Unsupported file type"
    ELSE IF BadDimension(ParseDimension(widthStr)) THEN "Width must be a positive number"
    ELSE IF BadDimension(ParseDimension(heightStr)) THEN "Height must be a positive number"
    ELSE ""

IdleRequest ==
    [pc |-> "idle", multipart |-> TRUE, file |-> NoFile,
     widthStr |-> <<>>, heightStr |-> <<>>,
     width |-> NotGiven, height |-> NotGiven, sourceFormat |-> "",
     input |-> "original", tempFile |-> FALSE,
     tempConversion |-> "none", memoryConversion |-> "none",
     unlinkFailed |-> FALSE, failedOn |-> "none",
     transcoderCalls |-> 0, outputWritten |-> FALSE,
     status |-> 0, success |-> FALSE, message |-> ""]

----------------------------------------------------------------------------
(* Resize: the canvas of playwright_optimizer.ts and sharp's resize *)

\* playwright_optimizer.ts line 10.
DEFAULT_MAX_RESOLUTION == 1920

\* Sizes of sources, and limits as the options give them; 0 is an option
\* that is not given. 200, 720 and 1200 are the maxWidth of imageConfigs.
SourceWidths == {1, 150, 200, 1200, 1921, 3000}
SourceHeights == {1, 133, 1920, 2000, 2001}
WidthLimits == {0, 200, 720, 1200}
HeightLimits == {0, 100, 2000}

Size(width, height) == [width |-> width, height |-> height]

\* playwright_optimizer.ts lines 70-71: options.maxWidth ||
\* DEFAULT_MAX_RESOLUTION.
LimitOrDefault(limit) == IF limit # 0 THEN limit ELSE DEFAULT_MAX_RESOLUTION

\* A canvas that is always scaled by the ratio of the limits.
CanvasSizeAlwaysScaled(W, H, maxWidthOption, maxHeightOption) ==
    LET maxWidth == LimitOrDefault(maxWidthOption)
        maxHeight == LimitOrDefault(maxHeightOption)
    IN  IF maxWidth * H <= maxHeight * W
        THEN Size(maxWidth, (H * maxWidth) \div W)
        ELSE Size((W * maxHeight) \div H, maxHeight)

\* playwright_optimizer.ts lines 64-80: the canvas has the size of the image
\* unless the image exceeds a limit; then both sides are multiplied by
\* ratio = min(maxWidth / W, maxHeight / H) and the canvas keeps the whole
\* part of each product.
CanvasSize(W, H, maxWidthOption, maxHeightOption) ==
    LET maxWidth == LimitOrDefault(maxWidthOption)
        maxHeight == LimitOrDefault(maxHeightOption)
    IN  IF W > maxWidth \/ H > maxHeight
        THEN IF maxWidth * H <= maxHeight * W
             THEN Size(maxWidth, (H * maxWidth) \div W)
             ELSE Size((W * maxHeight) \div H, maxHeight)
        ELSE Size(W, H)

\* Rounding of a / b to the nearest whole number.
RoundDiv(a, b) == (2 * a + b) \div (2 * b)

\* image_optimizer.ts lines 127-134: no resize without width and height;
\* otherwise sharp's resize with fit "inside" and withoutEnlargement: the
\* image is scaled to fit the given sides, never up, the other side rounded.
SharpSize(W, H, width, height) ==
    IF width = 0 /\ height = 0 THEN Size(W, H)
    ELSE LET byWidth == height = 0 \/ (width # 0 /\ width * H <= height * W)
         IN  IF byWidth
             THEN IF width >= W THEN Size(W, H)
                  ELSE Size(width, RoundDiv(H * width, W))
             ELSE IF height >= H THEN Size(W, H)
                  ELSE Size(RoundDiv(W * height, H), height)

IdleResize ==
    [pc |-> "idle", engine |-> "", W |-> 1, H |-> 1,
     maxWidth |-> 0, maxHeight |-> 0, out |-> Size(1, 1)]

\* atomicWrite (lines 116-129) of STATE_FILE through STATE_TEMP_FILE. A file
\* is <<>> when absent and <<document>> otherwise; it is torn when only a
\* part of the document's JSON text reached the disk.
IdleAtomicWrite ==
    [pc |-> "idle", data |-> FreshState, temp |-> <<>>, tempTorn |-> FALSE,
     fileTorn |-> FALSE, completed |-> {}]

----------------------------------------------------------------------------
(* processProperty: data *)

\* The longest gallery of a property.
MaxGallery == 3

\* Original image URLs of a gallery; a gallery may hold a URL twice.
GalleryUrls == {"a.jpg", "b.jpg"}

Galleries == UNION {[1..n -> GalleryUrls] : n \in 0..MaxGallery}

\* The two processProperty functions of the script: the original one and
\* the quiet-mode one.
Versions == {"original", "quiet"}

\* How retryWithBackoff(createOptimizedImages) ends for one image: with the
\* URLs, with an error, or with an error isPlaywrightError recognises.
ImageOutcomes == {"ok", "error", "playwright"}

\* lines 254-255, 282-283: results.full.url, the CDN URL of the optimized image.
FullUrl(url) == "cdn/" \o url

IdleProperty ==
    [pc |-> "idle", version |-> "original", input |-> <<>>,
     cover |-> "none", galleryImages |-> <<>>,
     optimizedGalleryImages |-> <<>>, failedGalleryImages |-> <<>>,
     outcomes |-> <<>>, loopDone |-> FALSE,
     result |-> "none", error |-> "none",
     processed |-> 0, failed |-> FALSE]

Init ==
    /\ store = [k \in {} |-> 0]
    /\ saveCount = 0
    /\ now = 0
    /\ call = [c \in Calls |-> IdleCall]
    /\ fs = [p \in {LocalSourcePath} |-> 2]
    /\ inv = [i \in Invocations |-> IdleInvocation]
    /\ mainPc = "stopped"
    /\ forced = FALSE
    /\ state = FreshState
    /\ stateFile = <<>>
    /\ loopIndex = 0
    /\ inFlight = {}
    /\ crashes = 0
    /\ properties = PropertiesJson
    /\ optimizedFile = <<>>
    /\ failedFile = <<>>
    /\ retry = IdleRetry
    /\ aw = IdleAtomicWrite
    /\ req = IdleRequest
    /\ rz = IdleResize
    /\ prop = IdleProperty

----------------------------------------------------------------------------
(* uploadImage, one action per stretch between two awaits *)

\* lines 70-81: the call is made and starts reading the file. Calls are
\* numbered in the order they are made.
UploadCall(c, filePath, content, folder, options) ==
    /\ call[c].pc = "idle"
    /\ \A d \in Calls : d < c => call[d].pc # "idle"
    /\ call' = [call EXCEPT ![c] =
                    [@ EXCEPT !.pc = "reading", !.filePath = filePath,
                              !.content = content, !.folder = folder,
                              !.options = options]]
    /\ UNCHANGED <<store, saveCount, now>>
    /\ UNCHANGED <<pipeVars, batchVars, auxVars>>

\* A content addresser that folds the sorted metadata into the digest.
MetadataFingerprint(metadata) ==
    IF "propertyId" \in DOMAIN metadata THEN "+propertyId=" \o metadata["propertyId"]
    ELSE ""

UploadReadMetadataHash(c) ==
    /\ call[c].pc = "reading"
    /\ LET h == generateHash(call[c].content)
                    \o MetadataFingerprint(call[c].options.metadata)
       IN  call' = [call EXCEPT ![c] =
                    [@ EXCEPT !.pc = "checking",
                              !.fileContent = call[c].content,
                              !.hash = h,
                              !.destination =
                                  call[c].folder \o <<SLASH>> \o
                                  generateFileName(Basename(call[c].filePath), h)]]
    /\ UNCHANGED <<store, saveCount, now>>
    /\ UNCHANGED <<pipeVars, batchVars, auxVars>>

\* A file name made unique by the time of the upload.
UploadReadTimestampName(c) ==
    /\ call[c].pc = "reading"
    /\ call' = [call EXCEPT ![c] =
                    [@ EXCEPT !.pc = "checking",
                              !.fileContent = call[c].content,
                              !.hash = generateHash(call[c].content),
                              !.destination =
                                  call[c].folder \o <<SLASH>> \o
                                  generateFileName(Basename(call[c].filePath),
                                      generateHash(call[c].content)
                                          \o "-" \o ToString(now))]]
    /\ UNCHANGED <<store, saveCount, now>>
    /\ UNCHANGED <<pipeVars, batchVars, auxVars>>

\* lines 81-90: the bytes arrive, the key is computed, exists() is sent.
UploadRead(c) ==
    /\ call[c].pc = "reading"
    /\ call' = [call EXCEPT ![c] =
                    [@ EXCEPT !.pc = "checking",
                              !.fileContent = call[c].content,
                              !.hash = generateHash(call[c].content),
                              !.destination =
                                  Destination(call[c].filePath, call[c].folder,
                                              call[c].content)]]
    /\ UNCHANGED <<store, saveCount, now>>
    /\ UNCHANGED <<pipeVars, batchVars, auxVars>>

\* An existence check that asks for the file name without its folder.
UploadExistsWrongKey(c) ==
    /\ call[c].pc = "checking"
    /\ IF Basename(call[c].destination) \in DOMAIN store
       THEN /\ call' = [call EXCEPT ![c] =
                           [@ EXCEPT !.pc = "done", !.sawExists = TRUE,
                                     !.urls = getImageUrls(call[c].destination)]]
            /\ UNCHANGED now
       ELSE /\ call' = [call EXCEPT ![c] = [@ EXCEPT !.pc = "saving", !.at = now]]
            /\ now' = now + 1
    /\ UNCHANGED <<store, saveCount>>
    /\ UNCHANGED <<pipeVars, batchVars, auxVars>>

\* An existence check that refreshes the record of the object it finds.
UploadExistsRefreshMetadata(c) ==
    /\ call[c].pc = "checking"
    /\ IF call[c].destination \in DOMAIN store
       THEN /\ call' = [call EXCEPT ![c] =
                           [@ EXCEPT !.pc = "done", !.sawExists = TRUE,
                                     !.urls = getImageUrls(call[c].destination)]]
            /\ store' = [store EXCEPT ![call[c].destination].metadata =
                            ImageMetadata(call[c].hash, now, call[c].options.metadata)]
            /\ UNCHANGED now
       ELSE /\ call' = [call EXCEPT ![c] = [@ EXCEPT !.pc = "saving", !.at = now]]
            /\ now' = now + 1
            /\ UNCHANGED store
    /\ UNCHANGED saveCount
    /\ UNCHANGED <<pipeVars, batchVars, auxVars>>

\* lines 90-102: exists() answers; the call returns the URLs of the
\* existing object, or reads the clock and sends save().
UploadExists(c) ==
    /\ call[c].pc = "checking"
    /\ IF call[c].destination \in DOMAIN store
       THEN /\ call' = [call EXCEPT ![c] =
                           [@ EXCEPT !.pc = "done", !.sawExists = TRUE,
                                     !.urls = getImageUrls(call[c].destination)]]
            /\ UNCHANGED now
       ELSE /\ call' = [call EXCEPT ![c] = [@ EXCEPT !.pc = "saving", !.at = now]]
            /\ now' = now + 1
    /\ UNCHANGED <<store, saveCount>>
    /\ UNCHANGED <<pipeVars, batchVars, auxVars>>

\* A save() that dodges a name taken since the check by appending a suffix.
UploadSaveSuffix(c) ==
    /\ call[c].pc = "saving"
    /\ LET key == IF call[c].destination \in DOMAIN store
                  THEN call[c].destination \o <<"-1">>
                  ELSE call[c].destination
       IN  /\ store' = Put(store, key,
                           StoredObject(call[c].fileContent, call[c].options,
                                        call[c].hash, call[c].at))
           /\ call' = [call EXCEPT ![c] =
                           [@ EXCEPT !.pc = "done", !.saves = @ + 1,
                                     !.urls = getImageUrls(key)]]
    /\ saveCount' = saveCount + 1
    /\ UNCHANGED now
    /\ UNCHANGED <<pipeVars, batchVars, auxVars>>

\* lines 102-115: save() writes the object and the call returns its URLs.
UploadSave(c) ==
    /\ call[c].pc = "saving"
    /\ store' = Put(store, call[c].destination,
                    StoredObject(call[c].fileContent, call[c].options,
                                 call[c].hash, call[c].at))
    /\ saveCount' = saveCount + 1
    /\ call' = [call EXCEPT ![c] =
                    [@ EXCEPT !.pc = "done", !.saves = @ + 1,
                              !.urls = getImageUrls(call[c].destination)]]
    /\ UNCHANGED now
    /\ UNCHANGED <<pipeVars, batchVars, auxVars>>

\* lines 90 and 102: exists() or save() rejects; uploadImage rejects.
UploadThrow(c) ==
    /\ call[c].pc \in {"checking", "saving"}
    /\ call' = [call EXCEPT ![c] = [@ EXCEPT !.pc = "failed"]]
    /\ UNCHANGED <<store, saveCount, now>>
    /\ UNCHANGED <<pipeVars, batchVars, auxVars>>

Next ==
    \/ \E c \in Calls, u \in UploadInputs :
          UploadCall(c, u.file.path, u.file.content, u.folder, u.options)
    \/ \E c \in Calls : UploadRead(c)
    \/ \E c \in Calls : UploadExists(c)
    \/ \E c \in Calls : UploadSave(c)
    \/ \E c \in Calls : UploadThrow(c)

Spec == Init /\ [][Next]_vars

\* The same calls made one after the other: each is awaited before the next.
NoCallRunning == \A c \in Calls : call[c].pc \in {"idle", "done", "failed"}

UploadCallAwaited(c, filePath, content, folder, options) ==
    /\ NoCallRunning
    /\ UploadCall(c, filePath, content, folder, options)

NextSeq ==
    \/ \E c \in Calls, u \in UploadInputs :
          UploadCallAwaited(c, u.file.path, u.file.content, u.folder, u.options)
    \/ \E c \in Calls : UploadRead(c)
    \/ \E c \in Calls : UploadExists(c)
    \/ \E c \in Calls : UploadSave(c)
    \/ \E c \in Calls : UploadThrow(c)

SpecSeq == Init /\ [][NextSeq]_vars

----------------------------------------------------------------------------
(* createOptimizedImages = optimizeImages, then uploadToCDN; one action per *)
(* stretch between two awaits                                              *)

Step(i, changes) ==
    /\ inv' = [inv EXCEPT ![i] = changes]
    /\ UNCHANGED <<batchVars, auxVars>>

\* optimizer.ts lines 347-353, 185-192: the call; a remote source starts its
\* download, a local one is used in place. Invocations are interchangeable:
\* they are numbered by their request, so that each group of concurrent
\* invocations is explored under one naming.
PipeStart(i, n) ==
    /\ inv[i].pc = "idle"
    /\ \A j \in Invocations :
          inv[j].pc # "idle" =>
            /\ j < i => inv[j].request <= n
            /\ j > i => inv[j].request >= n
    /\ LET src == Requests[n]
       IN  Step(i, [inv[i] EXCEPT
                    !.request = n,
                    !.source = src.url, !.srcContent = src.content,
                    !.types = src.types, !.k = 1,
                    !.pc = IF IsRemote(src.url) THEN "fetchSource" ELSE "transcode",
                    !.imagePath = IF IsRemote(src.url) THEN <<>> ELSE src.url,
                    !.tempFiles = IF IsRemote(src.url) THEN <<>> ELSE <<src.url>>])
    /\ UNCHANGED <<uploadVars, fs>>

\* lines 190-196 with saveToLocalImage (google_cdn.ts 118-136): the source is
\* downloaded and written under the hash of its bytes.
PipeFetchSource(i) ==
    /\ inv[i].pc = "fetchSource"
    /\ LET path == LocalImagePath(inv[i].source, TMP_INPUT_IMAGES_DIR,
                                  inv[i].srcContent)
       IN  /\ fs' = Put(fs, path, inv[i].srcContent)
           /\ Step(i, [inv[i] EXCEPT !.pc = "transcode", !.imagePath = path,
                                     !.tempFiles = <<path>>,
                                     !.created = @ \cup {path}])
    /\ UNCHANGED uploadVars

\* line 191: the download rejects; the finally block runs with nothing pushed.
PipeFetchSourceFail(i) ==
    /\ inv[i].pc = "fetchSource"
    /\ Step(i, [inv[i] EXCEPT !.pc = "cleanSource", !.pending = TRUE])
    /\ UNCHANGED <<uploadVars, fs>>

CurrentType(i) == inv[i].types[inv[i].k]

\* lines 206-223, playwright_optimizer.ts 33-34: the optimizer reads the
\* source file and returns success with the variant's bytes.
PipeTranscode(i) ==
    /\ inv[i].pc = "transcode"
    /\ fs[inv[i].imagePath] # 0
    /\ Step(i, [inv[i] EXCEPT
                    !.pc = "saveVariant",
                    !.out = Transcode(fs[inv[i].imagePath], CurrentType(i)),
                    !.log = Append(@, <<CurrentType(i), "transcode">>)])
    /\ UNCHANGED <<uploadVars, fs>>

\* A failed optimization that is swallowed: the source bytes stand in for
\* the variant.
PipeTranscodeFailSwallowed(i) ==
    /\ inv[i].pc = "transcode"
    /\ Step(i, [inv[i] EXCEPT
                    !.pc = "saveVariant",
                    !.out = fs[inv[i].imagePath],
                    !.log = Append(@, <<CurrentType(i), "transcodeFailed">>)])
    /\ UNCHANGED <<uploadVars, fs>>

\* lines 219-223: the optimizer returns success=false (an empty or undecodable
\* file, a codec or browser error); optimizeImages throws.
PipeTranscodeFail(i) ==
    /\ inv[i].pc = "transcode"
    /\ Step(i, [inv[i] EXCEPT
                    !.pc = "cleanSource", !.pending = TRUE,
                    !.log = Append(@, <<CurrentType(i), "transcodeFailed">>)])
    /\ UNCHANGED <<uploadVars, fs>>

\* lines 244-265: the variant's bytes are downloaded into a temp file named
\* by their hash; the loop goes on to the next type or returns.
PipeSaveVariant(i) ==
    /\ inv[i].pc = "saveVariant"
    /\ LET path == LocalImagePath(OptimizedUrl(inv[i].out),
                                  TMP_PRE_PROCESSED_IMAGES_DIR, inv[i].out)
           last == inv[i].k = Len(inv[i].types)
       IN  /\ fs' = Put(fs, path, inv[i].out)
           /\ Step(i, [inv[i] EXCEPT
                           !.pc = IF last THEN "cleanSource" ELSE "transcode",
                           !.k = IF last THEN @ ELSE @ + 1,
                           !.tempFiles = Append(@, path),
                           !.optimized = Append(@, [type |-> CurrentType(i),
                                                    tempFilePath |-> path,
                                                    bytes |-> inv[i].out]),
                           !.created = @ \cup {path}])
    /\ UNCHANGED uploadVars

\* line 244: the download of the variant rejects; optimizeImages throws.
PipeSaveVariantFail(i) ==
    /\ inv[i].pc = "saveVariant"
    /\ Step(i, [inv[i] EXCEPT
                    !.pc = "cleanSource", !.pending = TRUE,
                    !.log = Append(@, <<CurrentType(i), "downloadFailed">>)])
    /\ UNCHANGED <<uploadVars, fs>>

\* lines 268-277, 353-357, 292-297: the finally block of optimizeImages
\* empties the downloaded source; an error goes on to the caller, a result
\* goes to uploadToCDN, which starts the first upload.
PipeCleanSource(i) ==
    /\ inv[i].pc = "cleanSource"
    /\ IF IsRemote(inv[i].source) /\ inv[i].tempFiles # <<>>
       THEN fs' = [fs EXCEPT ![inv[i].tempFiles[1]] = 0]
       ELSE UNCHANGED fs
    /\ IF inv[i].pending
       THEN Step(i, [inv[i] EXCEPT !.pc = "threw"])
       ELSE Step(i, [inv[i] EXCEPT
                        !.pc = "uploadRead", !.k = 1,
                        !.upTempFiles = <<inv[i].optimized[1].tempFilePath>>])
    /\ UNCHANGED uploadVars

CurrentImage(i) == inv[i].optimized[inv[i].k]

\* google_cdn.ts lines 81-90 inside uploadToCDN: the temp file is read, its
\* key computed and exists() sent.
PipeUploadRead(i) ==
    /\ inv[i].pc = "uploadRead"
    /\ LET path == CurrentImage(i).tempFilePath
           bytes == fs[path]
       IN  Step(i, [inv[i] EXCEPT
                       !.pc = "uploadExists",
                       !.up = [fileContent |-> bytes,
                               hash |-> generateHash(bytes),
                               destination |->
                                   Destination(path,
                                               VariantFolder(CurrentImage(i).type),
                                               bytes),
                               at |-> 0],
                       !.log = Append(@, <<CurrentImage(i).type, "hash">>)])
    /\ UNCHANGED <<uploadVars, fs>>

\* optimizer.ts lines 322-335: the variant's result is recorded; the loop
\* starts the next upload or reaches the finally block.
Uploaded(i, event) ==
    LET type == CurrentImage(i).type
        last == inv[i].k = Len(inv[i].optimized)
        url == getImageUrls(inv[i].up.destination).directUrl
    IN  [inv[i] EXCEPT
            !.results = [t \in DOMAIN @ \cup {type} |-> IF t = type THEN url ELSE @[t]],
            !.log = Append(@, <<type, event>>),
            !.pc = IF last THEN "cleanTemp" ELSE "uploadRead",
            !.k = IF last THEN 1 ELSE @ + 1,
            !.upTempFiles =
                IF last THEN @ ELSE Append(@, inv[i].optimized[inv[i].k + 1].tempFilePath)]

\* google_cdn.ts lines 90-102: exists() answers.
PipeUploadExists(i) ==
    /\ inv[i].pc = "uploadExists"
    /\ IF inv[i].up.destination \in DOMAIN store
       THEN /\ Step(i, Uploaded(i, "exists"))
            /\ UNCHANGED now
       ELSE /\ Step(i, [inv[i] EXCEPT
                           !.pc = "uploadSave", !.up.at = now,
                           !.log = Append(@, <<CurrentImage(i).type, "absent">>)])
            /\ now' = now + 1
    /\ UNCHANGED <<store, saveCount, call, fs>>

\* google_cdn.ts lines 102-115: save() writes the object.
PipeUploadSave(i) ==
    /\ inv[i].pc = "uploadSave"
    /\ store' = Put(store, inv[i].up.destination,
                    StoredObject(inv[i].up.fileContent,
                                 VariantOptions(CurrentImage(i).type),
                                 inv[i].up.hash, inv[i].up.at))
    /\ saveCount' = saveCount + 1
    /\ Step(i, Uploaded(i, "save"))
    /\ UNCHANGED <<now, call, fs>>

\* exists() or save() rejects: uploadImage and uploadToCDN throw.
PipeUploadThrow(i) ==
    /\ inv[i].pc \in {"uploadExists", "uploadSave"}
    /\ Step(i, [inv[i] EXCEPT
                    !.pc = "cleanTemp", !.k = 1, !.pending = TRUE,
                    !.log = Append(@, <<CurrentImage(i).type, "uploadFailed">>)])
    /\ UNCHANGED <<uploadVars, fs>>

\* optimizer.ts lines 335-344, 357-359: the finally block of uploadToCDN
\* empties the temp files it has seen, one write at a time, then the call
\* returns its results or rethrows.
PipeCleanTemp(i) ==
    /\ inv[i].pc = "cleanTemp"
    /\ fs' = [fs EXCEPT ![inv[i].upTempFiles[inv[i].k]] = 0]
    /\ IF inv[i].k < Len(inv[i].upTempFiles)
       THEN Step(i, [inv[i] EXCEPT !.k = @ + 1])
       ELSE Step(i, [inv[i] EXCEPT
                        !.pc = IF inv[i].pending THEN "threw" ELSE "returned"])
    /\ UNCHANGED uploadVars

NextPipeline ==
    \/ \E i \in Invocations, n \in DOMAIN Requests : PipeStart(i, n)
    \/ \E i \in Invocations : PipeFetchSource(i)
    \/ \E i \in Invocations : PipeFetchSourceFail(i)
    \/ \E i \in Invocations : PipeTranscode(i)
    \/ \E i \in Invocations : PipeTranscodeFail(i)
    \/ \E i \in Invocations : PipeSaveVariant(i)
    \/ \E i \in Invocations : PipeSaveVariantFail(i)
    \/ \E i \in Invocations : PipeCleanSource(i)
    \/ \E i \in Invocations : PipeUploadRead(i)
    \/ \E i \in Invocations : PipeUploadExists(i)
    \/ \E i \in Invocations : PipeUploadSave(i)
    \/ \E i \in Invocations : PipeUploadThrow(i)
    \/ \E i \in Invocations : PipeCleanTemp(i)

SpecPipeline == Init /\ [][NextPipeline]_vars

----------------------------------------------------------------------------
(* The batch script: one action per event of the run *)

\* lines 362-395, 329-333: the script starts, loads its state and enters the
\* loop at lastProcessedIndex + 1; processBatch starts processProperty for
\* every property of the first batch.
BatchRunStart(force) ==
    /\ mainPc = "stopped"
    /\ LET loaded == loadProcessingState(force)
           first == loaded.lastProcessedIndex + 1
       IN  /\ state' = loaded
           /\ loopIndex' = first
           /\ IF first < NumProperties
              THEN mainPc' = "batch" /\ inFlight' = BatchOf(first)
              ELSE mainPc' = "completed" /\ inFlight' = {}
    /\ forced' = force
    /\ properties' = PropertiesJson
    /\ UNCHANGED <<stateFile, crashes, optimizedFile, failedFile,
                   uploadVars, pipeVars, auxVars>>

\* lines 334-338 (ok) and 339-356 (not ok): processProperty settles; the
\* handler records the property, moves lastProcessedIndex to its index and
\* saves the state file.
PropertySettled(p, ok) ==
    /\ mainPc = "batch"
    /\ p \in inFlight
    /\ LET next == [processedProperties |-> Append(state.processedProperties, p),
                    failedProperties |->
                        IF ok THEN state.failedProperties
                        ELSE Append(state.failedProperties, p),
                    lastProcessedIndex |-> p]
       IN  /\ state' = next
           /\ stateFile' = <<next>>
    /\ inFlight' = inFlight \ {p}
    /\ properties' = [properties EXCEPT ![p] = IF ok THEN "optimized" ELSE @]
    /\ UNCHANGED <<mainPc, forced, loopIndex, crashes, optimizedFile, failedFile,
                   uploadVars, pipeVars, auxVars>>

\* lines 334-338, then 339-356, 116-129: processProperty resolves and the
\* then-handler records the property, but its saveProcessingState throws
\* (atomicWrite rethrows a failed write or rename); the rejection reaches the
\* catch-handler chained after it, which records the property again, as
\* failed, and saves the state.
PropertySettledSaveThrows(p) ==
    /\ mainPc = "batch"
    /\ p \in inFlight
    /\ LET pushed == Append(state.processedProperties, p)
           next == [processedProperties |-> Append(pushed, p),
                    failedProperties |-> Append(state.failedProperties, p),
                    lastProcessedIndex |-> p]
       IN  /\ state' = next
           /\ stateFile' = <<next>>
    /\ inFlight' = inFlight \ {p}
    /\ properties' = [properties EXCEPT ![p] = "optimized"]
    /\ UNCHANGED <<mainPc, forced, loopIndex, crashes, optimizedFile, failedFile,
                   uploadVars, pipeVars, auxVars>>

\* A loop that goes on as soon as one property of the batch has settled.
BatchEndOnFirstSettled ==
    /\ mainPc = "batch"
    /\ inFlight # BatchOf(loopIndex)
    /\ LET next == loopIndex + BATCH_SIZE
       IN  /\ loopIndex' = next
           /\ IF next < NumProperties
              THEN mainPc' = "batch" /\ inFlight' = inFlight \cup BatchOf(next)
              ELSE mainPc' = "completed" /\ inFlight' = {}
    /\ optimizedFile' = SliceUpTo(properties, loopIndex + BATCH_SIZE)
    /\ failedFile' = IF Len(state.failedProperties) > 0
                     THEN state.failedProperties ELSE failedFile
    /\ UNCHANGED <<forced, state, stateFile, crashes, properties,
                   uploadVars, pipeVars, auxVars>>

\* lines 359, 390-409, 163-179: Promise.all resolves; saveIntermediateResults
\* writes the properties up to the end of the batch and the failed ones; the
\* loop goes on to the next batch or the script completes.
BatchEnd ==
    /\ mainPc = "batch"
    /\ inFlight = {}
    /\ LET next == loopIndex + BATCH_SIZE
       IN  /\ loopIndex' = next
           /\ IF next < NumProperties
              THEN mainPc' = "batch" /\ inFlight' = BatchOf(next)
              ELSE mainPc' = "completed" /\ inFlight' = {}
    /\ optimizedFile' = SliceUpTo(properties, loopIndex + BATCH_SIZE)
    /\ failedFile' = IF Len(state.failedProperties) > 0
                     THEN state.failedProperties ELSE failedFile
    /\ UNCHANGED <<forced, state, stateFile, crashes, properties,
                   uploadVars, pipeVars, auxVars>>

\* The run is interrupted (the process is killed): what is in memory is
\* lost, the state file stays.
Crash ==
    /\ mainPc = "batch"
    /\ crashes < MaxCrashes
    /\ crashes' = crashes + 1
    /\ mainPc' = "stopped"
    /\ inFlight' = {}
    /\ state' = FreshState
    /\ loopIndex' = 0
    /\ properties' = PropertiesJson
    /\ UNCHANGED <<forced, stateFile, optimizedFile, failedFile,
                   uploadVars, pipeVars, auxVars>>

NextBatch ==
    \/ \E force \in BOOLEAN : BatchRunStart(force)
    \/ \E p \in PropertyIndices : PropertySettled(p, p \notin FailingProperties)
    \/ BatchEnd
    \/ Crash

SpecBatch == Init /\ [][NextBatch]_vars

\* An uninterrupted run, in which a save of the state file may fail.
NextRun ==
    \/ \E force \in BOOLEAN : BatchRunStart(force)
    \/ \E p \in PropertyIndices : PropertySettled(p, p \notin FailingProperties)
    \/ \E p \in PropertyIndices : PropertySettledSaveThrows(p)
    \/ BatchEnd

SpecRun == Init /\ [][NextRun]_vars

----------------------------------------------------------------------------
(* retryWithBackoff around createOptimizedImages (processProperty) *)

\* lines 250-252, 192-197, 181-189: the call is made with the default
\* ceiling; withTimeout starts the operation and its timer.
RetryCall ==
    /\ retry.pc = "idle"
    /\ retry' = [retry EXCEPT !.pc = "attempt", !.pending = @ + 1]
    /\ UNCHANGED <<uploadVars, pipeVars, batchVars, aw, req, rz, prop>>

\* lines 197-198: the operation resolves before its timer; the value is
\* returned.
OperationResolves ==
    /\ retry.pc = "attempt"
    /\ retry' = [retry EXCEPT !.pc = "resolved",
                              !.outcomes = Append(@, "ok"),
                              !.pending = @ - 1]
    /\ UNCHANGED <<uploadVars, pipeVars, batchVars, aw, req, rz, prop>>

\* lines 198-202: the catch block. With no retries left the error is thrown,
\* otherwise the call sleeps RETRY_DELAY_MS.
RetryCatch(kind, stillPending, elapsed) ==
    IF retry.retries = 0
    THEN retry' = [retry EXCEPT !.pc = "rejected",
                                !.outcomes = Append(@, kind),
                                !.waited = @ + elapsed,
                                !.pending = stillPending]
    ELSE retry' = [retry EXCEPT !.pc = "sleeping",
                                !.outcomes = Append(@, kind),
                                !.sleeps = Append(@, RETRY_DELAY_MS),
                                !.waited = @ + elapsed,
                                !.pending = stillPending]

\* The operation rejects before its timer: createOptimizedImages threw
\* because the optimizer reported failure (optimizer.ts 219-223, "codec") or
\* because a download, exists() or save() rejected ("network").
OperationRejects(kind) ==
    /\ retry.pc = "attempt"
    /\ RetryCatch(kind, retry.pending - 1, 0)
    /\ UNCHANGED <<uploadVars, pipeVars, batchVars, aw, req, rz, prop>>

\* A race without a timer: nothing ends an attempt whose operation stays
\* pending.
OperationNeverTimesOut ==
    /\ retry.pc = "attempt"
    /\ UNCHANGED vars

\* lines 185-189: the timer fires first and the race rejects with "Operation
\* timed out"; the operation itself is not cancelled and stays pending.
OperationTimesOut ==
    /\ retry.pc = "attempt"
    /\ RetryCatch("timeout", retry.pending, OPERATION_TIMEOUT_MS)
    /\ UNCHANGED <<uploadVars, pipeVars, batchVars, aw, req, rz, prop>>

\* lines 201-202, 196-197: the sleep ends and retryWithBackoff calls itself
\* with one retry less, which starts the operation again.
RetrySleepEnds ==
    /\ retry.pc = "sleeping"
    /\ retry' = [retry EXCEPT !.pc = "attempt",
                              !.retries = @ - 1,
                              !.waited = @ + RETRY_DELAY_MS,
                              !.pending = @ + 1]
    /\ UNCHANGED <<uploadVars, pipeVars, batchVars, aw, req, rz, prop>>

NextRetry ==
    \/ RetryCall
    \/ OperationResolves
    \/ \E kind \in {"codec", "network"} : OperationRejects(kind)
    \/ OperationTimesOut
    \/ RetrySleepEnds

SpecRetry == Init /\ [][NextRetry]_vars

\* The timers of withTimeout and sleep fire; nothing is assumed of the
\* operation.
SpecRetryFair ==
    /\ Init /\ [][NextRetry]_vars
    /\ WF_vars(RetryCall)
    /\ WF_vars(OperationTimesOut)
    /\ WF_vars(RetrySleepEnds)

----------------------------------------------------------------------------
(* saveProcessingState: atomicWrite step by step *)

\* The state documents the script saves: lines 335-337 after property p.
CheckpointOf(p) ==
    [processedProperties |-> <<p>>, failedProperties |-> <<>>,
     lastProcessedIndex |-> p]

Documents == {CheckpointOf(p) : p \in PropertyIndices}

\* line 119: writeFileSync(tempPath, ...) writes the whole document.
SaveWriteTemp(doc) ==
    /\ aw.pc = "idle"
    /\ aw' = [aw EXCEPT !.pc = "renaming", !.data = doc,
                        !.temp = <<doc>>, !.tempTorn = FALSE]
    /\ UNCHANGED <<uploadVars, pipeVars, batchVars, retry, req, rz, prop>>

\* line 119: writeFileSync throws, before or after a part of the text was
\* written.
SaveWriteTempFails(doc, torn) ==
    /\ aw.pc = "idle"
    /\ aw' = [aw EXCEPT !.pc = "cleanup", !.data = doc,
                        !.temp = IF torn THEN <<doc>> ELSE @,
                        !.tempTorn = IF torn THEN TRUE ELSE @]
    /\ UNCHANGED <<uploadVars, pipeVars, batchVars, retry, req, rz, prop>>

\* A write in place of the state file that is cut short.
SaveCrashInPlaceWrite(doc) ==
    /\ aw.pc = "idle"
    /\ stateFile' = <<doc>>
    /\ aw' = [aw EXCEPT !.data = doc, !.fileTorn = TRUE]
    /\ UNCHANGED <<mainPc, forced, state, loopIndex, inFlight, crashes,
                   properties, optimizedFile, failedFile,
                   uploadVars, pipeVars, retry, req, rz, prop>>

\* line 119: the process dies while writeFileSync is writing.
SaveCrashInWrite(doc) ==
    /\ aw.pc = "idle"
    /\ aw' = [aw EXCEPT !.data = doc, !.temp = <<doc>>, !.tempTorn = TRUE]
    /\ UNCHANGED <<uploadVars, pipeVars, batchVars, retry, req, rz, prop>>

\* line 121: renameSync puts the temp file in the place of the state file in
\* one step; atomicWrite returns.
SaveRename ==
    /\ aw.pc = "renaming"
    /\ stateFile' = aw.temp
    /\ aw' = [aw EXCEPT !.pc = "idle", !.temp = <<>>, !.tempTorn = FALSE,
                        !.fileTorn = aw.tempTorn,
                        !.completed = @ \cup {aw.data}]
    /\ UNCHANGED <<mainPc, forced, state, loopIndex, inFlight, crashes,
                   properties, optimizedFile, failedFile,
                   uploadVars, pipeVars, retry, req, rz, prop>>

\* line 121: renameSync throws.
SaveRenameFails ==
    /\ aw.pc = "renaming"
    /\ aw' = [aw EXCEPT !.pc = "cleanup"]
    /\ UNCHANGED <<uploadVars, pipeVars, batchVars, retry, req, rz, prop>>

\* lines 122-128: the catch block removes the temp file if it exists and
\* rethrows.
SaveCleanup ==
    /\ aw.pc = "cleanup"
    /\ aw' = [aw EXCEPT !.pc = "idle", !.temp = <<>>, !.tempTorn = FALSE]
    /\ UNCHANGED <<uploadVars, pipeVars, batchVars, retry, req, rz, prop>>

\* The process dies between two file-system steps of atomicWrite.
SaveCrash ==
    /\ aw.pc \in {"renaming", "cleanup"}
    /\ aw' = [aw EXCEPT !.pc = "idle"]
    /\ UNCHANGED <<uploadVars, pipeVars, batchVars, retry, req, rz, prop>>

NextCheckpoint ==
    \/ \E doc \in Documents : SaveWriteTemp(doc)
    \/ \E doc \in Documents, torn \in BOOLEAN : SaveWriteTempFails(doc, torn)
    \/ \E doc \in Documents : SaveCrashInWrite(doc)
    \/ SaveRename
    \/ SaveRenameFails
    \/ SaveCleanup
    \/ SaveCrash

SpecCheckpoint == Init /\ [][NextCheckpoint]_vars

----------------------------------------------------------------------------
(* POST /api/v1/upload/optimize: handleUploadOptimize and optimizeImage *)

ReqFrame == UNCHANGED <<uploadVars, pipeVars, batchVars, retry, aw, rz, prop>>

\* part_000 lines 1626-1636, optimize.ts line 16: the request arrives; one
\* that is not multipart/form-data is answered at once, the others have
\* their form data read.
OptimizeRequest(multipart, file, widthStr, heightStr) ==
    /\ req.pc = "idle"
    /\ ~multipart => (file = NoFile /\ widthStr = <<>> /\ heightStr = <<>>)
    /\ IF multipart
       THEN req' = [req EXCEPT !.pc = "validate", !.file = file,
                               !.widthStr = widthStr, !.heightStr = heightStr]
       ELSE req' = [req EXCEPT !.pc = "responded", !.multipart = FALSE,
                               !.status = 400, !.success = FALSE,
                               !.message = "Content-Type must be multipart/form-data"]
    /\ ReqFrame

\* part_000 lines 1637-1646: the answer to an error thrown by the handler.
Rejected(r, message) ==
    [r EXCEPT !.pc = "responded", !.status = 400, !.success = FALSE,
              !.message = "Failed to process image: " \o message]

\* A handler without the check of the file's type.
ValidateNoTypeCheck ==
    /\ req.pc = "validate"
    /\ LET error == ValidationError([req.file EXCEPT !.type = "image/png"],
                                    req.widthStr, req.heightStr)
       IN  IF error # ""
           THEN req' = Rejected(req, error)
           ELSE req' = [req EXCEPT !.pc = "buffer",
                                   !.width = ParseDimension(req.widthStr),
                                   !.height = ParseDimension(req.heightStr)]
    /\ ReqFrame

\* optimize.ts lines 17-61, 89-92: the checks; a failed check throws and is
\* answered, otherwise the file's bytes are read.
Validate ==
    /\ req.pc = "validate"
    /\ LET error == ValidationError(req.file, req.widthStr, req.heightStr)
       IN  IF error # ""
           THEN req' = Rejected(req, error)
           ELSE req' = [req EXCEPT !.pc = "buffer",
                                   !.width = ParseDimension(req.widthStr),
                                   !.height = ParseDimension(req.heightStr)]
    /\ ReqFrame

\* optimize.ts lines 61-75, image_optimizer.ts lines 28-90: optimizeImage is
\* called; for an AVIF source it starts the conversion through the temp
\* file, for the others it goes on to the final conversion.
StartOptimize ==
    /\ req.pc = "buffer"
    /\ req' = [req EXCEPT !.pc = IF req.file.ext = "avif" THEN "toFile" ELSE "final",
                          !.sourceFormat = req.file.ext,
                          !.transcoderCalls = @ + 1]
    /\ ReqFrame

\* image_optimizer.ts lines 106-115: the finally block; unlinkSync may throw,
\* which is logged and swallowed.
CleanedUp(r, unlinkThrows) ==
    IF r.tempFile /\ unlinkThrows
    THEN [r EXCEPT !.unlinkFailed = TRUE]
    ELSE [r EXCEPT !.tempFile = FALSE]

\* A conversion through the temp file that keeps the file.
TempFileConversionKeepsFile(unlinkThrows) ==
    /\ req.pc = "toFile"
    /\ req' = [req EXCEPT !.pc = "final", !.tempConversion = "ok",
                          !.tempFile = TRUE, !.input = "tempFile"]
    /\ ReqFrame

\* lines 90-96, 106-119: toFile wrote the temp JPEG; the new sharp instance
\* names the temp file as its input (it is read when the pipeline runs), and
\* the finally block removes the file.
TempFileConversionOk(unlinkThrows) ==
    /\ req.pc = "toFile"
    /\ req' = CleanedUp([req EXCEPT !.pc = "final", !.tempConversion = "ok",
                                    !.tempFile = TRUE, !.input = "tempFile"],
                        unlinkThrows)
    /\ ReqFrame

\* lines 97-103: toFile rejects, with or without a part of the file on
\* disk; the catch block starts the conversion in memory.
TempFileConversionFails(partWritten) ==
    /\ req.pc = "toFile"
    /\ req' = [req EXCEPT !.pc = "toBuffer", !.tempConversion = "failed",
                          !.tempFile = partWritten]
    /\ ReqFrame

\* lines 101-119: the conversion in memory succeeds; the instance reads the
\* JPEG buffer; the finally block runs.
MemoryConversionOk(unlinkThrows) ==
    /\ req.pc = "toBuffer"
    /\ req' = CleanedUp([req EXCEPT !.pc = "final", !.memoryConversion = "ok",
                                    !.input = "jpegBuffer"],
                        unlinkThrows)
    /\ ReqFrame

\* lines 101-123: the conversion in memory rejects as well; the finally
\* block runs and the outer catch goes on with the original instance.
MemoryConversionFails(unlinkThrows) ==
    /\ req.pc = "toBuffer"
    /\ req' = CleanedUp([req EXCEPT !.pc = "final", !.memoryConversion = "failed"],
                        unlinkThrows)
    /\ ReqFrame

\* lines 126-210, optimize.ts 77-92: resize, format and the final toBuffer.
\* An instance whose input file is gone fails with "Input file is missing";
\* any other input decodes or does not. Success writes the output file.
FinalConversion(decodes) ==
    /\ req.pc = "final"
    /\ IF req.input = "tempFile" /\ ~req.tempFile
       THEN req' = [Rejected(req, "Image processing failed")
                        EXCEPT !.failedOn = "missingInput"]
       ELSE IF decodes
       THEN req' = [req EXCEPT !.pc = "responded", !.status = 200,
                               !.success = TRUE, !.outputWritten = TRUE,
                               !.message = "Image optimized and uploaded successfully"]
       ELSE req' = [Rejected(req, "Image processing failed")
                        EXCEPT !.failedOn = "codec"]
    /\ ReqFrame

NextOptimize ==
    \/ \E multipart \in BOOLEAN, file \in FormFiles,
          widthStr \in WidthStrings, heightStr \in HeightStrings :
            OptimizeRequest(multipart, file, widthStr, heightStr)
    \/ Validate
    \/ StartOptimize
    \/ \E unlinkThrows \in BOOLEAN : TempFileConversionOk(unlinkThrows)
    \/ \E partWritten \in BOOLEAN : TempFileConversionFails(partWritten)
    \/ \E unlinkThrows \in BOOLEAN : MemoryConversionOk(unlinkThrows)
    \/ \E unlinkThrows \in BOOLEAN : MemoryConversionFails(unlinkThrows)
    \/ \E decodes \in BOOLEAN : FinalConversion(decodes)

SpecOptimize == Init /\ [][NextOptimize]_vars

----------------------------------------------------------------------------
(* Resize: one action per engine *)

RzFrame == UNCHANGED <<uploadVars, pipeVars, batchVars, retry, aw, req, prop>>

\* playwright_optimizer.ts lines 55-80, 105-106: the page draws the image on
\* the canvas and reports the size of the canvas.
ResizeOnCanvas(W, H, maxWidth, maxHeight) ==
    /\ rz.pc = "idle"
    /\ rz' = [pc |-> "done", engine |-> "canvas", W |-> W, H |-> H,
              maxWidth |-> LimitOrDefault(maxWidth),
              maxHeight |-> LimitOrDefault(maxHeight),
              out |-> CanvasSize(W, H, maxWidth, maxHeight)]
    /\ RzFrame

\* image_optimizer.ts lines 126-134, 180-202: optimizeImage resizes and
\* reports the size of its output.
ResizeWithSharp(W, H, width, height) ==
    /\ rz.pc = "idle"
    /\ rz' = [pc |-> "done", engine |-> "sharp", W |-> W, H |-> H,
              maxWidth |-> width, maxHeight |-> height,
              out |-> SharpSize(W, H, width, height)]
    /\ RzFrame

NextResize ==
    \/ \E W \in SourceWidths, H \in SourceHeights,
          maxWidth \in WidthLimits, maxHeight \in HeightLimits :
            ResizeOnCanvas(W, H, maxWidth, maxHeight)
    \/ \E W \in SourceWidths, H \in SourceHeights,
          width \in WidthLimits, height \in HeightLimits :
            ResizeWithSharp(W, H, width, height)

SpecResize == Init /\ [][NextResize]_vars

----------------------------------------------------------------------------
(* processProperty and its handlers in processBatch: one action per stretch *)
(* between awaits                                                          *)

PropFrame == UNCHANGED <<uploadVars, pipeVars, batchVars, retry, aw, req, rz>>

\* lines 332-333 (824): processBatch calls processProperty for a property
\* with the given gallery.
PropertyStart(version, gallery) ==
    /\ prop.pc = "idle"
    /\ prop' = [IdleProperty EXCEPT !.pc = "cover", !.version = version,
                                    !.input = gallery, !.galleryImages = gallery]
    /\ PropFrame

\* lines 304-310: the gallery is replaced by the collected URLs, and the
\* call rejects when as many images failed as the gallery holds.
AfterGalleryLoop(p) ==
    LET q == [p EXCEPT !.galleryImages = p.optimizedGalleryImages,
                       !.loopDone = TRUE, !.pc = "settled"]
    IN  IF Len(q.failedGalleryImages) = Len(q.galleryImages)
        THEN [q EXCEPT !.result = "rejected", !.error = "allGalleryFailed"]
        ELSE [q EXCEPT !.result = "resolved"]

\* lines 800-812: the gallery is replaced by the collected URLs and the call
\* resolves.
QuietAfterGalleryLoop(p) ==
    [p EXCEPT !.galleryImages = p.optimizedGalleryImages,
              !.loopDone = TRUE, !.pc = "settled", !.result = "resolved"]

\* lines 274, 762: the for loop goes to the next image or ends.
LoopStep(p) ==
    IF Len(p.outcomes) < Len(p.input)
    THEN [p EXCEPT !.pc = "gallery"]
    ELSE IF p.version = "original" THEN AfterGalleryLoop(p)
         ELSE QuietAfterGalleryLoop(p)

\* lines 250-266, then 268-310: the cover image is optimized and the gallery
\* loop starts, or any error is logged and rethrown.
CoverDone(outcome) ==
    /\ prop.pc = "cover"
    /\ prop.version = "original"
    /\ prop' = IF outcome = "ok"
               THEN LoopStep([prop EXCEPT !.cover = outcome])
               ELSE [prop EXCEPT !.cover = outcome, !.pc = "settled",
                                 !.result = "rejected", !.error = "cover"]
    /\ PropFrame

\* lines 728-754, then 756-812: the cover image is optimized and the gallery
\* loop starts; a Playwright error is logged and followed by a delay; any
\* other error is logged and the function returns.
QuietCoverDone(outcome) ==
    /\ prop.pc = "cover"
    /\ prop.version = "quiet"
    /\ prop' = CASE outcome = "ok" -> LoopStep([prop EXCEPT !.cover = outcome])
                 [] outcome = "playwright" ->
                        [prop EXCEPT !.cover = outcome, !.pc = "coverDelay"]
                 [] OTHER -> [prop EXCEPT !.cover = outcome, !.pc = "settled",
                                          !.result = "resolved"]
    /\ PropFrame

\* A loop that leaves a failed image out of the collected URLs.
GalleryImageDoneDropsFailed(outcome) ==
    /\ prop.pc = "gallery"
    /\ prop.version = "original"
    /\ LET index == Len(prop.outcomes)
           galleryImage == prop.input[index + 1]
           done == [prop EXCEPT !.outcomes = Append(@, outcome)]
       IN  prop' =
             IF outcome = "ok"
             THEN LoopStep([done EXCEPT !.optimizedGalleryImages =
                                            Append(@, FullUrl(galleryImage))])
             ELSE LoopStep([done EXCEPT !.failedGalleryImages = Append(@, index)])
    /\ PropFrame

\* lines 274-302, then 304-310: one gallery image is settled: its optimized
\* URL is collected, or the failure is recorded and the original URL is
\* collected in its place.
GalleryImageDone(outcome) ==
    /\ prop.pc = "gallery"
    /\ prop.version = "original"
    /\ LET index == Len(prop.outcomes)
           galleryImage == prop.input[index + 1]
           done == [prop EXCEPT !.outcomes = Append(@, outcome)]
       IN  prop' =
             IF outcome = "ok"
             THEN LoopStep([done EXCEPT !.optimizedGalleryImages =
                                            Append(@, FullUrl(galleryImage))])
             ELSE LoopStep([done EXCEPT !.failedGalleryImages = Append(@, index),
                                        !.optimizedGalleryImages =
                                            Append(@, galleryImage)])
    /\ PropFrame

\* lines 762-798, then 800-812: as above, except that a Playwright error is
\* logged and followed by a delay and is not recorded as a failed image.
QuietGalleryImageDone(outcome) ==
    /\ prop.pc = "gallery"
    /\ prop.version = "quiet"
    /\ LET index == Len(prop.outcomes)
           galleryImage == prop.input[index + 1]
           done == [prop EXCEPT !.outcomes = Append(@, outcome)]
       IN  prop' =
             CASE outcome = "ok" ->
                    LoopStep([done EXCEPT !.optimizedGalleryImages =
                                              Append(@, FullUrl(galleryImage))])
               [] outcome = "playwright" -> [done EXCEPT !.pc = "galleryDelay"]
               [] OTHER ->
                    LoopStep([done EXCEPT !.failedGalleryImages = Append(@, index),
                                          !.optimizedGalleryImages =
                                              Append(@, galleryImage)])
    /\ PropFrame

\* lines 692-717, then 738 or 778-779: the delay of handlePlaywrightError
\* ends; for the cover the function returns, for a gallery image the
\* original URL is collected and the loop continues.
PlaywrightDelayEnds ==
    /\ prop.pc \in {"coverDelay", "galleryDelay"}
    /\ prop' = IF prop.pc = "coverDelay"
               THEN [prop EXCEPT !.pc = "settled", !.result = "resolved"]
               ELSE LoopStep([prop EXCEPT !.optimizedGalleryImages =
                                  Append(@, prop.input[Len(prop.outcomes)])])
    /\ PropFrame

\* lines 334-338 and 339-356 (825-847): the then-handler records the
\* property as processed; the catch-handler records it as failed and as
\* processed.
PropertyRecorded ==
    /\ prop.pc = "settled"
    /\ prop' = [prop EXCEPT !.pc = "recorded", !.processed = @ + 1,
                            !.failed = (prop.result = "rejected")]
    /\ PropFrame

NextProperty ==
    \/ \E version \in Versions, gallery \in Galleries :
          PropertyStart(version, gallery)
    \/ \E outcome \in ImageOutcomes : CoverDone(outcome)
    \/ \E outcome \in ImageOutcomes : QuietCoverDone(outcome)
    \/ \E outcome \in ImageOutcomes : GalleryImageDone(outcome)
    \/ \E outcome \in ImageOutcomes : QuietGalleryImageDone(outcome)
    \/ PlaywrightDelayEnds
    \/ PropertyRecorded

SpecProperty == Init /\ [][NextProperty]_vars

----------------------------------------------------------------------------
(* Claims about CoreImageService.uploadImage *)

Returned(c) == call[c].pc = "done"

SameKeyInputs(c, d) ==
    /\ call[c].content = call[d].content
    /\ Extname(call[c].filePath) = Extname(call[d].filePath)
    /\ call[c].folder = call[d].folder

\* The objects of the bucket that hold the bytes of call c in its folder
\* under its extension.
ObjectsFor(c) ==
    {k \in DOMAIN store :
        /\ store[k].bytes = call[c].content
        /\ LastSlash(k) = Len(call[c].folder) + 1
        /\ SubSeq(k, 1, Len(call[c].folder)) = call[c].folder
        /\ Extname(k) = Extname(call[c].filePath)}

\* The calls whose save() wrote the key of call c.
WritersFor(c) ==
    {d \in Calls : SameKeyInputs(c, d) /\ call[d].saves > 0}

\* C1: two sequential uploadImage calls with identical bytes, extension,
\* folder and metadata leave exactly one object for that content, return
\* the same three URLs, and the content is written once however often the
\* input is run again.
C1_DedupIdempotence ==
    \A c, d \in Calls :
        (/\ c # d /\ Returned(c) /\ Returned(d)
         /\ SameKeyInputs(c, d)
         /\ call[c].options.metadata = call[d].options.metadata)
        => /\ Cardinality(ObjectsFor(c)) = 1
           /\ call[c].urls = call[d].urls
           /\ Cardinality(WritersFor(c)) = 1
           /\ \A w \in WritersFor(c) : call[w].saves = 1

C1_Witness ==
    \E c, d \in Calls :
        /\ c # d /\ Returned(c) /\ Returned(d)
        /\ SameKeyInputs(c, d)
        /\ call[c].options = call[d].options
        /\ call[d].sawExists

C3_CheckThenWriteRace ==
    /\ \A c \in Calls : call[c].saves <= 1
    /\ \A c \in Calls :
          Returned(c) =>
            /\ call[c].destination \in DOMAIN store
            /\ store[call[c].destination].bytes = call[c].content
            /\ call[c].urls = getImageUrls(call[c].destination)
            /\ Cardinality(ObjectsFor(c)) = 1
    /\ \A c, d \in Calls :
          (Returned(c) /\ Returned(d) /\ SameKeyInputs(c, d))
          => call[c].urls = call[d].urls

\* Two calls for the same new key both saw it absent and both wrote.
C3_Witness ==
    \E c, d \in Calls :
        /\ c # d /\ Returned(c) /\ Returned(d)
        /\ SameKeyInputs(c, d)
        /\ call[c].saves = 1 /\ call[d].saves = 1

Hashed(c) == call[c].pc \in {"checking", "saving", "done"}

\* C9: two calls with the same bytes, extension and folder and different
\* metadata get the same key and the same URLs, and made one after the
\* other the second is deduplicated.
C9_MetadataNotInIdentity ==
    \A c, d \in Calls :
        (/\ c # d /\ SameKeyInputs(c, d)
         /\ call[c].options.metadata # call[d].options.metadata)
        => /\ (Hashed(c) /\ Hashed(d)) => call[c].destination = call[d].destination
           /\ (Returned(c) /\ Returned(d))
                => /\ call[c].urls = call[d].urls
                   /\ Cardinality(WritersFor(c)) = 1
           /\ \A w \in WritersFor(c) : call[w].saves = 1

C9_Witness ==
    \E c, d \in Calls :
        /\ c # d /\ SameKeyInputs(c, d)
        /\ call[c].options.metadata # call[d].options.metadata
        /\ Returned(c) /\ Returned(d) /\ call[d].sawExists

\* C10 as stated: identical bytes with different metadata receive
\* different content keys.
C10_MetadataInDigest ==
    \A c, d \in Calls :
        (/\ c # d /\ Hashed(c) /\ Hashed(d)
         /\ SameKeyInputs(c, d)
         /\ call[c].options.metadata # call[d].options.metadata)
        => call[c].destination # call[d].destination

\* C10 amended: the digest is taken over the bytes alone; the metadata a
\* call supplies reaches only the record of the object that call writes,
\* and a call that finds its key leaves the first writer's record in place.
C10_DigestOfBytesOnly ==
    /\ \A c \in Calls : Hashed(c) => call[c].hash = generateHash(call[c].content)
    /\ \A c \in Calls :
          (Returned(c) /\ call[c].saves = 1)
          => store[call[c].destination].metadata
               = ImageMetadata(generateHash(call[c].content), call[c].at,
                               call[c].options.metadata)
    /\ \A c, d \in Calls :
          (/\ Returned(c) /\ Returned(d) /\ call[c].saves = 1 /\ call[d].sawExists
           /\ call[c].destination = call[d].destination)
          => store[call[d].destination].metadata
               = ImageMetadata(call[c].hash, call[c].at, call[c].options.metadata)

C10_Witness ==
    \E c, d \in Calls :
        /\ Returned(c) /\ Returned(d) /\ call[c].saves = 1 /\ call[d].sawExists
        /\ call[c].destination = call[d].destination
        /\ call[c].options.metadata # call[d].options.metadata
        /\ "propertyId" \in DOMAIN call[d].options.metadata

----------------------------------------------------------------------------
(* Claims about createOptimizedImages *)

Ended(i) == inv[i].pc \in {"returned", "threw"}

TypesOf(i) == {inv[i].types[n] : n \in DOMAIN inv[i].types}

Logged(i, type, event) ==
    \E n \in DOMAIN inv[i].log : inv[i].log[n] = <<type, event>>

LoggedBefore(i, type, event, n) ==
    \E m \in 1..(n - 1) : inv[i].log[m] = <<type, event>>

FailedVariants(i) ==
    {t \in TypesOf(i) :
        \/ Logged(i, t, "transcodeFailed") \/ Logged(i, t, "downloadFailed")
        \/ Logged(i, t, "uploadFailed")}

AttemptedVariants(i) ==
    {t \in TypesOf(i) : Logged(i, t, "transcode") \/ Logged(i, t, "transcodeFailed")}

\* C4: when one of several variants fails, every variant is still processed
\* and the call returns (it does not throw) with a result for every variant
\* that did not fail.
C4_VariantIndependence ==
    \A i \in Invocations :
        (Ended(i) /\ Len(inv[i].types) > 1 /\ FailedVariants(i) # {})
        => /\ inv[i].pc = "returned"
           /\ AttemptedVariants(i) = TypesOf(i)
           /\ DOMAIN inv[i].results = TypesOf(i) \ FailedVariants(i)

\* C5: once createOptimizedImages has returned or thrown, none of the temp
\* files the run created is on disk.
C5_NoTempFilesRemain ==
    \A i \in Invocations :
        Ended(i) => \A p \in inv[i].created : p \notin DOMAIN fs

\* C6: in every run, a variant's content hash is computed only after its
\* transcode has succeeded, its existence check only after its hash, and its
\* write only after the existence check found the key absent.
C6_PerVariantOrdering ==
    \A i \in Invocations :
        \A n \in DOMAIN inv[i].log :
            LET type == inv[i].log[n][1]
                event == inv[i].log[n][2]
            IN  /\ event = "hash" => LoggedBefore(i, type, "transcode", n)
                /\ event \in {"exists", "absent"} => LoggedBefore(i, type, "hash", n)
                /\ event = "save" => LoggedBefore(i, type, "absent", n)
                /\ event \in {"hash", "exists", "absent", "save"}
                     => ~LoggedBefore(i, type, "transcodeFailed", n)

\* Both variants of a run were transcoded, hashed, checked and written.
C6_Witness ==
    \E i \in Invocations :
        /\ inv[i].pc = "returned"
        /\ Len(inv[i].types) = 2
        /\ \A t \in TypesOf(i) : Logged(i, t, "save")

\* C8: the temp file an invocation is about to read (the downloaded source
\* before a transcode, a variant's file before its upload) holds the bytes
\* that invocation wrote: no other invocation has overwritten or emptied it.
C8_ExclusiveTempFiles ==
    \A i \in Invocations :
        /\ (inv[i].pc = "transcode" /\ IsRemote(inv[i].source))
             => fs[inv[i].imagePath] = inv[i].srcContent
        /\ inv[i].pc = "uploadRead"
             => fs[CurrentImage(i).tempFilePath] = CurrentImage(i).bytes

----------------------------------------------------------------------------
(* Claims about the batch script *)

\* C7: in a run resumed without --force, no property that the state file
\* records as processed is being processed again.
C7_ResumeWithoutReprocessing ==
    (mainPc = "batch" /\ ~forced /\ crashes > 0)
    => \A p \in inFlight : p \notin Range(state.processedProperties)

----------------------------------------------------------------------------
(* Claims about retryWithBackoff *)

RetrySettled == retry.pc \in {"resolved", "rejected"}

\* C11: an attempt that failed because the transcoder reported failure is
\* never followed by another attempt; only network failures and timeouts are.
C11_CodecFailuresNotRetried ==
    \A n \in DOMAIN retry.outcomes :
        retry.outcomes[n] = "codec"
        => /\ n = Len(retry.outcomes)
           /\ retry.pc = "rejected"

\* C12: under the default ceiling the operation is attempted at most
\* MAX_RETRIES times, the delays between attempts grow, and a call that
\* gives up has failed on its last attempt.
C12_RetryCeiling ==
    /\ Len(retry.outcomes) + (IF retry.pc = "attempt" THEN 1 ELSE 0) <= MAX_RETRIES
    /\ \A n \in 1..(Len(retry.sleeps) - 1) : retry.sleeps[n + 1] > retry.sleeps[n]
    /\ retry.pc = "rejected" => retry.outcomes[Len(retry.outcomes)] # "ok"

\* C13: an attempt whose operation never completes is ended by its timer
\* and counted as a failed attempt, so a call settles after at most
\* MAX_RETRIES + 1 attempts whatever the operation does.
C13_TimeoutsNeverHang ==
    /\ [](Len(retry.outcomes) <= MAX_RETRIES + 1)
    /\ [](retry.pc = "rejected" => Len(retry.outcomes) = MAX_RETRIES + 1)
    /\ (retry.pc = "attempt") ~> RetrySettled

\* The call gave up after every attempt timed out; the operations it
\* started are all still pending.
C13_Witness ==
    /\ retry.pc = "rejected"
    /\ \A n \in DOMAIN retry.outcomes : retry.outcomes[n] = "timeout"
    /\ retry.pending = MAX_RETRIES + 1

\* C14: at most BATCH_SIZE properties are being processed at any moment,
\* all of them of the current batch, and processing of further properties
\* starts only when none of the previous batch is still pending.
C14_BoundedBatchConcurrency ==
    /\ [](Cardinality(inFlight) <= BATCH_SIZE)
    /\ [](inFlight \subseteq BatchOf(loopIndex))
    /\ [][(inFlight' \ inFlight # {}) => inFlight = {}]_vars

\* The second batch is being processed in an uninterrupted run.
C14_Witness ==
    /\ mainPc = "batch"
    /\ crashes = 0
    /\ loopIndex = BATCH_SIZE
    /\ inFlight # {}
    /\ Len(state.processedProperties) = BATCH_SIZE

----------------------------------------------------------------------------
(* Claims about atomicWrite *)

\* C15: at every instant the state file is absent or holds the whole
\* document of a save that reached its rename, and only a successful rename
\* changes it: a failed write or rename and a crash leave it as it was.
C15_AtomicCheckpoint ==
    /\ [](stateFile = <<>> \/ (~aw.fileTorn /\ stateFile[1] \in aw.completed))
    /\ [][stateFile' # stateFile
            => (aw.pc = "renaming" /\ aw'.pc = "idle" /\ stateFile' = <<aw.data>>)]_vars

\* A crash in the middle of a later write left a torn temp file beside the
\* state file of an earlier save.
C15_Witness ==
    /\ aw.pc = "idle"
    /\ aw.tempTorn
    /\ stateFile # <<>>
    /\ stateFile # aw.temp

----------------------------------------------------------------------------
(* Claims about optimizeImage and POST /api/v1/upload/optimize *)

OptimizeEnded == req.pc = "responded" /\ req.transcoderCalls > 0

C17_TranscoderFallback ==
    /\ req.pc \in {"final", "responded"}
         => ((req.memoryConversion # "none") <=> (req.tempConversion = "failed"))
    /\ req.failedOn = "missingInput"
         => (req.tempConversion = "failed" /\ req.memoryConversion = "failed")

\* A string that is a number: an optional sign and digits only.
IsNumeric(str) ==
    LET unsigned == IF str # <<>> /\ Head(str) = "-" THEN Tail(str) ELSE str
    IN  unsigned # <<>> /\ \A n \in DOMAIN unsigned : unsigned[n] \in Digits

NonNumericOrNonPositive(str) ==
    str # <<>> /\ (~IsNumeric(str) \/ ParseInt(str).value <= 0)

ParsedNaNOrNonPositive(str) ==
    str # <<>> /\ (ParseInt(str).kind = "NaN" \/ ParseInt(str).value <= 0)

RejectedUntouched ==
    /\ req.status >= 400 /\ req.status <= 499
    /\ ~req.success
    /\ req.message # ""
    /\ req.transcoderCalls = 0
    /\ ~req.outputWritten

----------------------------------------------------------------------------
(* Claims about the resize policy *)

Abs(n) == IF n < 0 THEN 0 - n ELSE n

\* A limit of 0 is a side without a limit.
Within(side, source, limit) ==
    side <= source /\ (limit # 0 => side <= limit)

----------------------------------------------------------------------------
(* Claims about the URLs of uploadImage *)

UrlsOfKey(key) ==
    [cdnUrl |-> <<cdnBase, SLASH>> \o key,
     directUrl |-> <<"https://storage.googleapis.com/", bucketName, SLASH>> \o key,
     gsUrl |-> <<"gs://", bucketName, SLASH>> \o key]

\* C20: the URLs a call returns are {cdnBase}/{key}, the direct URL of
\* {bucket}/{key} and gs://{bucket}/{key}, where key is the destination
\* {folder}/{digest}{.ext} that the call checked and, if absent, wrote.
C20_UrlsAddressKey ==
    \A c \in Calls :
        Returned(c)
        => /\ call[c].destination
                = call[c].folder \o <<SLASH, generateHash(call[c].content)>>
                    \o Extname(call[c].filePath)
           /\ call[c].destination \in DOMAIN store
           /\ call[c].urls = UrlsOfKey(call[c].destination)

----------------------------------------------------------------------------
(* Claims about the metadata record *)

\* The calls whose save() wrote an object.
Wrote(c) == call[c].pc = "done" /\ call[c].saves > 0

\* C21: an object written by uploadImage carries a metadata record whose
\* fullHash is the digest of the stored bytes (the digest in its key), whose
\* uploadedAt is the time of the upload, and which holds every tag of the
\* caller, whatever the caller's metadata map.
C21_MetadataRecord ==
    \A c \in Calls :
        (Wrote(c) /\ \A d \in Calls : (d # c /\ SameKeyInputs(c, d)) => call[d].saves = 0)
        => LET record == store[call[c].destination].metadata
           IN  /\ {"fullHash", "uploadedAt"} \subseteq DOMAIN record
               /\ record["fullHash"] = generateHash(store[call[c].destination].bytes)
               /\ <<record["fullHash"]>> = BasenameNoExt(call[c].destination)
               /\ record["uploadedAt"] = ToString(call[c].at)
               /\ \A tag \in DOMAIN call[c].options.metadata :
                      /\ tag \in DOMAIN record
                      /\ record[tag] = call[c].options.metadata[tag]

----------------------------------------------------------------------------
(* Claims about the downloaded source *)

Downloaded(i) == IsRemote(inv[i].source) /\ inv[i].imagePath # <<>>

\* C23: the extension of the file a remote source is downloaded to is that
\* of the type of the bytes received, not the extension of the URL.
C23_TypeFromContent ==
    \A i \in Invocations :
        Downloaded(i)
        => Extname(inv[i].imagePath) = <<Requests[inv[i].request].format>>

----------------------------------------------------------------------------
(* Claims about the lifetime of the temp JPEG and of abandoned attempts *)

\* C26: whenever the pipeline that was built from the path of the temp JPEG
\* is about to be executed, the file is still on disk.
C26_TempFileOutlivesItsReader ==
    (req.pc = "final" /\ req.input = "tempFile") => req.tempFile

\* C27: at most one attempt of the operation is pending at any time: an
\* attempt that timed out is no longer running when the next one starts.
C27_NoOverlappingAttempts == retry.pending <= 1

----------------------------------------------------------------------------
(* Claims about resuming the batch script *)

Resumed == ~forced /\ crashes > 0 /\ mainPc \in {"batch", "completed"}

\* C24: in a run resumed without --force every property is recorded as
\* processed, is being processed, or belongs to a batch still to come: none
\* that the interrupted run left unfinished is skipped.
C24_ResumeNeverSkips ==
    Resumed
    => \A p \in PropertyIndices :
          \/ p \in Range(state.processedProperties)
          \/ p \in inFlight
          \/ (mainPc = "batch" /\ p >= loopIndex + BATCH_SIZE)

\* C25: when a resumed run has completed, optimized_properties.json holds
\* the optimized entry of every property that was processed without failure,
\* in the earlier run or in this one.
C25_ResultsSurviveResume ==
    (Resumed /\ mainPc = "completed")
    => \A p \in Range(state.processedProperties) \ Range(state.failedProperties) :
          /\ p + 1 \in DOMAIN optimizedFile
          /\ optimizedFile[p + 1] = "optimized"

Occurrences(seq, x) == Cardinality({n \in DOMAIN seq : seq[n] = x})

\* C28: when an uninterrupted run has completed, every property index occurs
\* exactly once in state.processedProperties and every failed property is
\* among the processed ones.
C28_AccountedExactlyOnce ==
    mainPc = "completed"
    => /\ \A p \in PropertyIndices : Occurrences(state.processedProperties, p) = 1
       /\ Range(state.failedProperties) \subseteq Range(state.processedProperties)

----------------------------------------------------------------------------
(* Claims about processProperty *)

\* C22: a property whose cover image could not be optimized is recorded in
\* failedProperties once its handler has run.
C22_CoverFailureRecorded ==
    (prop.pc = "recorded" /\ prop.cover \in {"error", "playwright"})
    => prop.failed

\* What the gallery must hold at position i after the loop.
ExpectedUrl(i) ==
    IF prop.outcomes[i] = "ok" THEN FullUrl(prop.input[i]) ELSE prop.input[i]

\* C29: once the gallery loop has completed, property.galleryImages is as
\* long as the input list and holds at every position the optimized URL of
\* the input at that position or, when its optimization failed, that input.
C29_GalleryKeepsShape ==
    prop.loopDone
    => /\ Len(prop.galleryImages) = Len(prop.input)
       /\ \A i \in DOMAIN prop.input : prop.galleryImages[i] = ExpectedUrl(i)

\* A gallery of MaxGallery images has been processed with an image that was
\* optimized followed by one that failed.
C29_Witness ==
    /\ prop.loopDone
    /\ Len(prop.input) = MaxGallery
    /\ prop.outcomes[1] = "ok"
    /\ prop.outcomes[2] # "ok"
    /\ prop.input[1] = prop.input[2]

AllGalleryFailed ==
    /\ Len(prop.input) >= 1
    /\ Len(prop.outcomes) = Len(prop.input)
    /\ \A i \in DOMAIN prop.outcomes : prop.outcomes[i] # "ok"

\* C30: the original processProperty rejects with 'All gallery images
\* failed' exactly when the gallery is not empty and every image of it
\* failed, and a property with an optimized cover and an empty gallery is
\* not recorded as failed.
C30_AllFailedOnlyWhenTrue ==
    (prop.version = "original" /\ prop.pc \in {"settled", "recorded"})
    => /\ (prop.error = "allGalleryFailed") <=> (prop.cover = "ok" /\ AllGalleryFailed)
       /\ (prop.pc = "recorded" /\ prop.cover = "ok" /\ prop.input = <<>>)
              => ~prop.failed

====
